---- MODULE Spec2Model ----
\* Model of sys/build.rs: the build-time pipeline that probes the toolchain,
\* assembles entry.c, synthesizes wrapped_<name> forwarding functions from the
\* parsed translation unit, patches the generated code behind a marker into
\* entry.c and the alternate files, and drives the binding generator.
\*
\* Text (file contents, paths, arguments) is a sequence of one-character
\* strings.  An Option is None (no value) or Some(x).
EXTENDS Integers, Sequences, FiniteSets, TLC

\* ---------------------------------------------------------------- bounds
MaxLines == 3   \* lines of gcc's diagnostic output
MaxDecls == 2   \* top-level declarations of the parsed translation unit
MaxFrags == 2   \* fragments an initial file content is composed of
MaxRuns  == 2   \* consecutive runs of the build script

\* ---------------------------------------------------------------- Option
None == <<>>
Some(x) == <<x>>
Unwrap(o) == o[1]
UnwrapOr(o, d) == IF o = None THEN d ELSE o[1]

\* ---------------------------------------------------------------- text
GENERATED_CODE_MARKER ==
  <<"\n", "\n", "/", "/", "/", " ", "G", "e", "n", "e", "r", "a", "t", "e",
    "d", " ", "C", "o", "d", "e", "\n", "\n">>

Whitespace == {" ", "\t", "\n", "\r"}

\* str::find: byte offset of the first occurrence of needle, or None
RECURSIVE FindFrom(_, _, _)
FindFrom(hay, needle, i) ==
  IF i + Len(needle) > Len(hay) THEN None
  ELSE IF SubSeq(hay, i + 1, i + Len(needle)) = needle THEN Some(i)
  ELSE FindFrom(hay, needle, i + 1)
Find(hay, needle) == FindFrom(hay, needle, 0)

\* str::trim: strip leading and trailing whitespace
RECURSIVE TrimStart(_)
TrimStart(s) ==
  IF s # <<>> /\ Head(s) \in Whitespace THEN TrimStart(Tail(s)) ELSE s
RECURSIVE TrimEnd(_)
TrimEnd(s) ==
  IF s # <<>> /\ s[Len(s)] \in Whitespace
  THEN TrimEnd(SubSeq(s, 1, Len(s) - 1)) ELSE s
Trim(s) == TrimEnd(TrimStart(s))

\* str::split on a one-character separator: always at least one piece
RECURSIVE Split(_, _)
Split(s, sep) ==
  LET at == Find(s, <<sep>>)
  IN IF at = None THEN <<s>>
     ELSE <<SubSeq(s, 1, Unwrap(at))>>
          \o Split(SubSeq(s, Unwrap(at) + 2, Len(s)), sep)

\* content.find(MARKER).unwrap_or(content.len()); content.drain(len..)
TruncateAtMarker(content) ==
  SubSeq(content, 1, UnwrapOr(Find(content, GENERATED_CODE_MARKER), Len(content)))

\* Path::join followed by display().to_string()
JoinPath(base, p) ==
  IF p # <<>> /\ Head(p) = "/" THEN p
  ELSE base \o (IF base # <<>> /\ base[Len(base)] = "/" THEN <<>> ELSE <<"/">>) \o p

RECURSIVE Flatten(_)
Flatten(ss) == IF ss = <<>> THEN <<>> ELSE Head(ss) \o Flatten(Tail(ss))

\* ---------------------------------------------------------------- literals
SearchStartsHere ==
  <<"#", "i", "n", "c", "l", "u", "d", "e", " ", "<", ".", ".", ".", ">", " ",
    "s", "e", "a", "r", "c", "h", " ", "s", "t", "a", "r", "t", "s", " ",
    "h", "e", "r", "e", ":">>
EndOfSearchList ==
  <<"E", "n", "d", " ", "o", "f", " ", "s", "e", "a", "r", "c", "h", " ",
    "l", "i", "s", "t", ".">>
Thumbv6m ==
  <<"t", "h", "u", "m", "b", "v", "6", "m", "-", "n", "o", "n", "e", "-",
    "e", "a", "b", "i">>
HostTriple == <<"x", "8", "6", "_", "6", "4">>
ArmNoneEabiGcc ==
  <<"a", "r", "m", "-", "n", "o", "n", "e", "-", "e", "a", "b", "i", "-",
    "g", "c", "c">>
Gcc == <<"g", "c", "c">>
Void == <<"v", "o", "i", "d">>
Return == <<"r", "e", "t", "u", "r", "n">>
WrappedPrefix == <<"w", "r", "a", "p", "p", "e", "d", "_">>
DashI == <<"-", "I">>
DashD == <<"-", "D">>
DashTarget == <<"-", "-", "t", "a", "r", "g", "e", "t", "=">>

\* the process environment's directories: OUT_DIR and what  exists()  sees
out_dir == <<"/", "o">>
entry_path == JoinPath(out_dir, <<"e", "n", "t", "r", "y", ".", "c">>)
build_dir == JoinPath(out_dir, <<"b", "u", "i", "l", "d">>)
ExistingPaths == {<<"/", "u">>, out_dir}
\* the built-in cmake_pico/entry.c
BuiltinEntryC == <<"#", "d", "\n">>

\* ---------------------------------------------------------------- Toolchain Probe
\* Command::new(..) of get_implicit_include_directories
GccCommand(target_triple) ==
  IF target_triple = Thumbv6m THEN ArmNoneEabiGcc ELSE Gcc

\* the break condition of the first while loop
IsSearchStartUntrimmed(s) == s = SearchStartsHere
IsSearchStart(s) == Trim(s) = SearchStartsHere

\* Path::new(s).exists()
Exists(s) == s \in ExistingPaths

\* ---------------------------------------------------------------- Build Description Extractor
\* include_path: split(':'), out_dir.join("build").join(path.trim())
IncludeDirectories(include_path) ==
  LET paths == Split(include_path, ":")
  IN [i \in 1..Len(paths) |-> JoinPath(build_dir, Trim(paths[i]))]

\* definitions: split(':'), no trimming
Definitions(definitions_text) == Split(definitions_text, ":")

\* ---------------------------------------------------------------- Header Introspector
\* the argument list handed to the parser
ClangArgumentsNoImplicit(include_directories, definitions, implicit_include_directories) ==
  [i \in 1..Len(include_directories) |-> DashI \o include_directories[i]]
  \o [i \in 1..Len(definitions) |-> DashD \o definitions[i]]
ClangArguments(include_directories, definitions, implicit_include_directories) ==
  [i \in 1..Len(include_directories) |-> DashI \o include_directories[i]]
  \o [i \in 1..Len(definitions) |-> DashD \o definitions[i]]
  \o [i \in 1..Len(implicit_include_directories) |->
        DashI \o implicit_include_directories[i]]

\* include_directories.iter().all(|dir| dir.len() > location.len()
\*                                      || &location[..dir.len()] != dir)
\* (the caller has unwrapped entity.location)
IsNotInIncludeDirectoriesAnyDir(include_directories, entity) ==
  LET location == Unwrap(entity.location)
  IN \E i \in 1..Len(include_directories) :
       LET dir == include_directories[i]
       IN IF Len(dir) > Len(location) THEN TRUE
          ELSE SubSeq(location, 1, Len(dir)) # dir
IsNotInIncludeDirectories(include_directories, entity) ==
  LET location == Unwrap(entity.location)
  IN \A i \in 1..Len(include_directories) :
       LET dir == include_directories[i]
       IN IF Len(dir) > Len(location) THEN TRUE
          ELSE SubSeq(location, 1, Len(dir)) # dir

\* the children that pass the filter_map of create_wrapper_function
ParmDecls(entity) == SelectSeq(entity.children, LAMBDA c : c.kind = "ParmDecl")

\* the fold over the (formal, actual) pairs
RECURSIVE FoldArguments(_, _, _)
FoldArguments(params, formal, actual) ==
  IF params = <<>> THEN <<formal, actual>>
  ELSE LET p == Head(params)
           f == Unwrap(p.type) \o <<" ">> \o Unwrap(p.name)
           a == Unwrap(p.name)
           sep == IF formal # <<>> THEN <<",", " ">> ELSE <<>>
       IN FoldArguments(Tail(params), formal \o sep \o f, actual \o sep \o a)

\* the unwrap() calls of create_wrapper_function that can panic
CreateWrapperPanics(entity) ==
  \/ \E i \in 1..Len(ParmDecls(entity)) :
       ParmDecls(entity)[i].name = None \/ ParmDecls(entity)[i].type = None
  \/ entity.result_type = None
  \/ entity.name = None

\* the return keyword of the format!
ReturnKeywordAlways(return_type) == Return \o <<" ">>
ReturnKeyword(return_type) == IF return_type = Void THEN <<>> ELSE Return \o <<" ">>

\* create_wrapper_function: None when an unwrap() panics, else Some(text)
CreateWrapperFunctionLenient(entity) ==
  IF CreateWrapperPanics(entity) THEN Some(<<>>)
  ELSE LET args == FoldArguments(ParmDecls(entity), <<>>, <<>>)
           return_type == Unwrap(entity.result_type)
           function_name == Unwrap(entity.name)
       IN Some(return_type \o <<" ">> \o WrappedPrefix \o function_name
               \o <<"(">> \o args[1] \o <<")", " ", "{", " ">>
               \o ReturnKeyword(return_type) \o function_name
               \o <<"(">> \o args[2] \o <<")", ";", " ", "}", "\n">>)
CreateWrapperFunction(entity) ==
  IF CreateWrapperPanics(entity) THEN None
  ELSE LET args == FoldArguments(ParmDecls(entity), <<>>, <<>>)
           return_type == Unwrap(entity.result_type)
           function_name == Unwrap(entity.name)
       IN Some(return_type \o <<" ">> \o WrappedPrefix \o function_name
               \o <<"(">> \o args[1] \o <<")", " ", "{", " ">>
               \o ReturnKeyword(return_type) \o function_name
               \o <<"(">> \o args[2] \o <<")", ";", " ", "}", "\n">>)

\* ---------------------------------------------------------------- Entry-Point Assembler
\* the text written to the fresh entry.c: None when the read is fatal
EntryC(custom_entry_point, files) ==
  IF custom_entry_point = None THEN Some(BuiltinEntryC)
  ELSE LET read == IF Unwrap(custom_entry_point) \in DOMAIN files
                   THEN files[Unwrap(custom_entry_point)] ELSE None
       IN IF read = None THEN None
          ELSE Some(TruncateAtMarker(Unwrap(read)))

\* ---------------------------------------------------------------- Generated-Code Propagator
\* PICO_SDK_RS_C_BINDING_ALTERNATIVES: unwrap_or(""), trim(), split(":")
GetCBindingAlternatives(value) == Split(Trim(UnwrapOr(value, <<>>)), ":")

\* drain from the marker on, push the generated code
PatchAlternativeAppendOnly(content, generated) == content \o generated
PatchAlternative(content, generated) == TruncateAtMarker(content) \o generated

\* where the loop over the alternates goes after a failed iteration (continue)
AfterFailureBreak(index, count) == count + 1
AfterFailure(index, count) == index + 1

\* ---------------------------------------------------------------- Binding Generator Driver
\* clang_args(clang_arguments), clang_args(-I implicit), clang_arg(--target=)
BindgenClangArgs(clang_arguments, implicit_include_directories, target_triple) ==
  clang_arguments
  \o [i \in 1..Len(implicit_include_directories) |->
        DashI \o implicit_include_directories[i]]
  \o <<DashTarget \o target_triple>>

\* ---------------------------------------------------------------- inputs
IntType == <<"i", "n", "t">>
LocVendor == <<"/", "v", "/", "a", ".", "h">>
LocNear == <<"/", "v", "x", "/", "b", ".", "h">>
LocSystem == <<"/", "u", "/", "s", ".", "h">>
LocBuild == build_dir \o <<"/", "i", "n", "c", "/", "c", ".", "h">>

Parm(type, name) == [kind |-> "ParmDecl", name |-> name, type |-> type]
Attr == [kind |-> "UnexposedAttr", name |-> None, type |-> None]
Decl(kind, location, result_type, name, children) ==
  [kind |-> kind, location |-> location, result_type |-> result_type,
   name |-> name, children |-> children]

\* static inline int add(int a, int b) in a vendor header
E_add == Decl("FunctionDecl", Some(LocVendor), Some(IntType), Some(<<"a", "d", "d">>),
              <<Parm(Some(IntType), Some(<<"a">>)), Parm(Some(IntType), Some(<<"b">>))>>)
\* void reset(void), carrying an attribute, in a vendor header
E_reset == Decl("FunctionDecl", Some(LocVendor), Some(Void),
                Some(<<"r", "e", "s", "e", "t">>), <<Attr>>)
\* int printf(const char *, ...) in a system header
E_printf == Decl("FunctionDecl", Some(LocSystem), Some(IntType),
                 Some(<<"p", "r", "i", "n", "t", "f">>),
                 <<Parm(Some(<<"c", "o", "n", "s", "t", " ", "c", "h", "a", "r", " ", "*">>), None)>>)
\* void put(int) in a vendor header: the parameter has no name
E_put == Decl("FunctionDecl", Some(LocVendor), Some(Void), Some(<<"p", "u", "t">>),
              <<Parm(Some(IntType), None)>>)
\* void_t stop(void) in a vendor header, void_t a typedef of void
E_stop == Decl("FunctionDecl", Some(LocVendor), Some(<<"v", "o", "i", "d", "_", "t">>),
               Some(<<"s", "t", "o", "p">>), <<>>)
\* int near(int n) in /vx/b.h, a sibling of the vendor directory /v
E_near == Decl("FunctionDecl", Some(LocNear), Some(IntType), Some(<<"n", "e", "a", "r">>),
               <<Parm(Some(IntType), Some(<<"n">>))>>)
\* int v; in a header below the build directory
E_var == Decl("VarDecl", Some(LocBuild), None, Some(<<"v">>), <<>>)
\* declarations the frontend could not resolve
E_nolocation == Decl("FunctionDecl", None, Some(IntType), Some(<<"f">>), <<>>)
E_noname == Decl("FunctionDecl", Some(LocVendor), Some(IntType), None, <<>>)
E_noresult == Decl("FunctionDecl", Some(LocVendor), None, Some(<<"g">>), <<>>)

Entities == {E_add, E_reset, E_printf, E_put, E_stop, E_near, E_var,
             E_nolocation, E_noname, E_noresult}

RECURSIVE SeqsUpTo(_, _)
SeqsUpTo(S, n) ==
  IF n = 0 THEN {<<>>}
  ELSE LET shorter == SeqsUpTo(S, n - 1)
       IN shorter \cup {Append(q, x) : q \in shorter, x \in S}

TranslationUnits ==
  {[ok |-> FALSE, entities |-> <<>>]}
  \cup {[ok |-> TRUE, entities |-> es] : es \in SeqsUpTo(Entities, MaxDecls)}

IncludePathFiles ==
  {<<"/", "v">>,
   <<"/", "w", "/", "i", "n", "c", "l", "u", "d", "e", "/", "x", ":", " ", "/", "v">>,
   <<"i", "n", "c", ":", "/", "u">>}

GccLines ==
  {SearchStartsHere, <<" ">> \o SearchStartsHere \o <<"\r">>,
   <<" ", "/", "u">>, EndOfSearchList, <<>>}
GccOutputs == SeqsUpTo(GccLines, MaxLines)

FileA == <<"a">>
FileB == <<"b">>
FilePaths == {FileA, FileB}
Fragments == {<<"x">>, GENERATED_CODE_MARKER, SubSeq(GENERATED_CODE_MARKER, 1, 20)}
Contents == {Flatten(fr) : fr \in SeqsUpTo(Fragments, MaxFrags)}
StaleB == <<"y">> \o GENERATED_CODE_MARKER \o <<"s">>
AlternativesValues ==
  {Some(FileA), Some(FileA \o <<":">> \o FileB),
   Some(<<" ">> \o FileB \o <<":">> \o FileA), Some(FileA \o <<":">> \o FileA)}

DefaultGcc == <<SearchStartsHere, <<" ", "/", "u">>, EndOfSearchList>>
DefaultTu == [ok |-> TRUE, entities |-> <<E_add>>]

\* ---------------------------------------------------------------- state
VARIABLES
  env,                 \* TARGET, PICO_SDK_RS_CUSTOM_ENTRY_POINT, .._ALTERNATIVES
  gcc_output,          \* the lines gcc -v prints on stderr
  include_path,        \* OUT_DIR/include_path as cmake_depend writes it
  definitions_text,    \* OUT_DIR/definitions as cmake_depend writes it
  tu,                  \* what the frontend makes of entry.c: ok, entities
  fs,                  \* the files outside OUT_DIR: path -> Option(content)
  entry_c,             \* OUT_DIR/entry.c: Option(content)
  pc, panic, run,
  gcc_command, gi, implicit_include_directories,
  compiled,            \* the entry.c text the cmake_pico build compiled
  include_directories, definitions, clang_arguments,
  parser,              \* what the parser was given: file, arguments
  code, k, wrapper_function,
  alternatives, j,
  failed,              \* the iterations that reported a failure
  bindgen,             \* what the binding generator was given
  start_fs,            \* fs when the run began
  history              \* entry.c, fs and failed at the end of each completed run

inputs == <<env, gcc_output, include_path, definitions_text, tu>>
probe == <<gcc_command, gi, implicit_include_directories>>
options == <<compiled, include_directories, definitions>>
introspect == <<clang_arguments, parser, code, k, wrapper_function>>
propagate == <<alternatives, j, failed>>
ghost == <<start_fs, history>>
vars == <<inputs, fs, entry_c, pc, panic, run, probe, options, introspect,
          propagate, bindgen, ghost>>

Lookup(files, path) == IF path \in DOMAIN files THEN files[path] ELSE None

Locals ==
  /\ pc = "main" /\ panic = ""
  /\ gcc_command = None /\ gi = 0 /\ implicit_include_directories = <<>>
  /\ compiled = None /\ include_directories = <<>> /\ definitions = <<>>
  /\ clang_arguments = <<>> /\ parser = None
  /\ code = <<>> /\ k = 0 /\ wrapper_function = None
  /\ alternatives = <<>> /\ j = 0 /\ failed = {}
  /\ bindgen = None

\* the Toolchain Probe's inputs vary
InitProbe ==
  /\ gcc_output \in GccOutputs
  /\ env \in [TARGET : {Thumbv6m, HostTriple}, CUSTOM_ENTRY_POINT : {None},
              ALTERNATIVES : {None}]
  /\ include_path = <<"/", "v">>
  /\ definitions_text = <<"A", ":", "B", "=", "1">>
  /\ tu = DefaultTu
  /\ fs = [p \in FilePaths |-> None]

\* the Header Introspector's inputs vary
InitIntrospect ==
  /\ gcc_output = DefaultGcc
  /\ env = [TARGET |-> Thumbv6m, CUSTOM_ENTRY_POINT |-> None,
            ALTERNATIVES |-> None]
  /\ include_path \in IncludePathFiles
  /\ definitions_text = <<"A", ":", "B", "=", "1">>
  /\ tu \in TranslationUnits
  /\ fs = [p \in FilePaths |-> None]

\* the files and the propagation targets vary
InitFiles ==
  /\ gcc_output = DefaultGcc
  /\ env \in [TARGET : {Thumbv6m}, CUSTOM_ENTRY_POINT : {None, Some(FileA)},
              ALTERNATIVES : AlternativesValues]
  /\ include_path = <<"/", "v">>
  /\ definitions_text = <<"A", ":", "B", "=", "1">>
  /\ tu \in {DefaultTu, [ok |-> TRUE, entities |-> <<E_reset, E_noname>>]}
  /\ fs \in {[p \in FilePaths |-> IF p = FileA THEN a ELSE b] :
               a \in {None} \cup {Some(c) : c \in Contents},
               b \in {None, Some(StaleB)}}

Init ==
  /\ InitProbe \/ InitIntrospect \/ InitFiles
  /\ entry_c = None
  /\ run = 1
  /\ Locals
  /\ start_fs = fs
  /\ history = <<>>

Panic(message) == pc' = "panicked" /\ panic' = message

\* ---------------------------------------------------------------- actions
\* get_implicit_include_directories: spawn the compiler, take its stderr
SpawnGcc ==
  /\ pc = "main"
  /\ gcc_command' = Some(GccCommand(env.TARGET))
  /\ gi' = 1
  /\ pc' = "probe_find"
  /\ UNCHANGED <<inputs, fs, entry_c, panic, run, implicit_include_directories,
                 options, introspect, propagate, bindgen, ghost>>

\* one iteration of the first while loop: look for the introducing line
ProbeFind ==
  /\ pc = "probe_find"
  /\ IF gi > Len(gcc_output)
     THEN pc' = "probe_collect" /\ gi' = gi
     ELSE /\ gi' = gi + 1
          /\ pc' = IF IsSearchStart(gcc_output[gi]) THEN "probe_collect"
                   ELSE "probe_find"
  /\ UNCHANGED <<inputs, fs, entry_c, panic, run, gcc_command,
                 implicit_include_directories, options, introspect, propagate,
                 bindgen, ghost>>

\* one iteration of the second while loop: collect while the line exists
ProbeCollect ==
  /\ pc = "probe_collect"
  /\ IF gi <= Len(gcc_output) /\ Exists(Trim(gcc_output[gi]))
     THEN /\ implicit_include_directories' =
               Append(implicit_include_directories, Trim(gcc_output[gi]))
          /\ gi' = gi + 1
          /\ pc' = "probe_collect"
     ELSE /\ pc' = "entry"
          /\ UNCHANGED <<gi, implicit_include_directories>>
  /\ UNCHANGED <<inputs, fs, entry_c, panic, run, gcc_command, options,
                 introspect, propagate, bindgen, ghost>>

\* create_entry_point_file_to_out_dir
CreateEntryPointFile ==
  /\ pc = "entry"
  /\ LET entry_text == EntryC(env.CUSTOM_ENTRY_POINT, fs)
     IN IF entry_text = None
        THEN Panic("failed to read entry.c") /\ UNCHANGED entry_c
        ELSE pc' = "options" /\ entry_c' = entry_text /\ UNCHANGED panic
  /\ UNCHANGED <<inputs, fs, run, probe, options, introspect, propagate,
                 bindgen, ghost>>

\* get_compile_options: the cmake_pico build compiles ENTRY_POINT as it is
\* now, cmake_depend writes the two files, which are read and split
GetCompileOptions ==
  /\ pc = "options"
  /\ compiled' = entry_c
  /\ include_directories' = IncludeDirectories(include_path)
  /\ definitions' = Definitions(definitions_text)
  /\ pc' = "parse"
  /\ UNCHANGED <<inputs, fs, entry_c, panic, run, probe, introspect,
                 propagate, bindgen, ghost>>

\* write_wrapper_function up to parser.parse()
Parse ==
  /\ pc = "parse"
  /\ clang_arguments' = ClangArguments(include_directories, definitions,
                                       implicit_include_directories)
  /\ parser' = Some([file |-> entry_path, arguments |-> clang_arguments'])
  /\ IF tu.ok
     THEN /\ code' = GENERATED_CODE_MARKER
          /\ k' = 1
          /\ pc' = "loop"
          /\ UNCHANGED panic
     ELSE Panic("failed to parse") /\ UNCHANGED <<code, k>>
  /\ UNCHANGED <<inputs, fs, entry_c, run, probe, options, wrapper_function,
                 propagate, bindgen, ghost>>

LoopFrame ==
  UNCHANGED <<inputs, fs, entry_c, run, probe, options, clang_arguments,
              parser, propagate, bindgen, ghost>>

\* entity.get_location().unwrap() panics
PanicLocation ==
  /\ pc = "loop" /\ k <= Len(tu.entities)
  /\ tu.entities[k].location = None
  /\ Panic("unwrap on None: location")
  /\ UNCHANGED <<code, k, wrapper_function>>
  /\ LoopFrame

\* is_not_in_include_directories: ignored, continue
IgnoreEntity ==
  /\ pc = "loop" /\ k <= Len(tu.entities)
  /\ tu.entities[k].location # None
  /\ IsNotInIncludeDirectories(include_directories, tu.entities[k])
  /\ k' = k + 1
  /\ wrapper_function' = None
  /\ UNCHANGED <<pc, panic, code>>
  /\ LoopFrame

\* in scope but not a function declaration
SkipEntity ==
  /\ pc = "loop" /\ k <= Len(tu.entities)
  /\ tu.entities[k].location # None
  /\ ~IsNotInIncludeDirectories(include_directories, tu.entities[k])
  /\ tu.entities[k].kind # "FunctionDecl"
  /\ k' = k + 1
  /\ wrapper_function' = None
  /\ UNCHANGED <<pc, panic, code>>
  /\ LoopFrame

\* in scope and a function declaration: code += create_wrapper_function(..)
WrapFunction ==
  /\ pc = "loop" /\ k <= Len(tu.entities)
  /\ tu.entities[k].location # None
  /\ ~IsNotInIncludeDirectories(include_directories, tu.entities[k])
  /\ tu.entities[k].kind = "FunctionDecl"
  /\ CreateWrapperFunction(tu.entities[k]) # None
  /\ wrapper_function' = CreateWrapperFunction(tu.entities[k])
  /\ code' = code \o Unwrap(wrapper_function')
  /\ k' = k + 1
  /\ UNCHANGED <<pc, panic>>
  /\ LoopFrame

\* an unwrap() inside create_wrapper_function panics
PanicWrapper ==
  /\ pc = "loop" /\ k <= Len(tu.entities)
  /\ tu.entities[k].location # None
  /\ ~IsNotInIncludeDirectories(include_directories, tu.entities[k])
  /\ tu.entities[k].kind = "FunctionDecl"
  /\ CreateWrapperFunction(tu.entities[k]) = None
  /\ Panic("unwrap on None: create_wrapper_function")
  /\ UNCHANGED <<code, k, wrapper_function>>
  /\ LoopFrame

\* entry.write_all(code), then get_c_binding_alternatives()
WriteEntry ==
  /\ pc = "loop" /\ k > Len(tu.entities)
  /\ entry_c' = Some(Unwrap(entry_c) \o code)
  /\ alternatives' = GetCBindingAlternatives(env.ALTERNATIVES)
  /\ j' = 1
  /\ pc' = "alts"
  /\ UNCHANGED <<inputs, fs, panic, run, probe, options, introspect, failed,
                 bindgen, ghost>>

AltFrame ==
  UNCHANGED <<inputs, entry_c, pc, panic, run, probe, options, introspect,
              alternatives, bindgen, ghost>>

\* File::open fails (always so when the file does not exist) or
\* read_to_string fails: reported, continue
AltOpenOrReadFail ==
  /\ pc = "alts" /\ j <= Len(alternatives)
  /\ failed' = failed \cup {j}
  /\ j' = AfterFailure(j, Len(alternatives))
  /\ UNCHANGED fs
  /\ AltFrame

\* fs::write fails, before or after it truncated the file: continue
AltWriteFail ==
  /\ pc = "alts" /\ j <= Len(alternatives)
  /\ Lookup(fs, alternatives[j]) # None
  /\ failed' = failed \cup {j}
  /\ j' = AfterFailure(j, Len(alternatives))
  /\ fs' \in {fs, [fs EXCEPT ![alternatives[j]] = Some(<<>>)]}
  /\ AltFrame

\* the alternate file is read, cut at the marker, extended and written back
AltPatch ==
  /\ pc = "alts" /\ j <= Len(alternatives)
  /\ Lookup(fs, alternatives[j]) # None
  /\ fs' = [fs EXCEPT ![alternatives[j]] =
                 Some(PatchAlternative(Unwrap(fs[alternatives[j]]), code))]
  /\ j' = j + 1
  /\ UNCHANGED failed
  /\ AltFrame

\* write_wrapper_function returns clang_arguments
AltDone ==
  /\ pc = "alts" /\ j > Len(alternatives)
  /\ pc' = "bindgen"
  /\ UNCHANGED <<inputs, fs, entry_c, panic, run, probe, options, introspect,
                 propagate, bindgen, ghost>>

BindgenInvocation ==
  Some([header |-> entry_path,
        clang_args |-> BindgenClangArgs(clang_arguments,
                                        implicit_include_directories, env.TARGET),
        whitelist_function |-> WrappedPrefix \o <<".", "*">>])

\* generate_rust_binding: bindings.rs is written
GenerateRustBinding ==
  /\ pc = "bindgen"
  /\ bindgen' = BindgenInvocation
  /\ pc' = "done"
  /\ history' = Append(history, [entry_c |-> entry_c, fs |-> fs, failed |-> failed])
  /\ UNCHANGED <<inputs, fs, entry_c, panic, run, probe, options, introspect,
                 propagate, start_fs>>

\* generate_rust_binding: generate() or write_to_file() fails
GenerateRustBindingFails ==
  /\ pc = "bindgen"
  /\ bindgen' = BindgenInvocation
  /\ Panic("failed to generate binding")
  /\ UNCHANGED <<inputs, fs, entry_c, run, probe, options, introspect,
                 propagate, ghost>>

\* after a completed build cargo runs the build script again, on the files
\* that build left
Rerun ==
  /\ pc = "done"
  /\ run < MaxRuns
  /\ run' = run + 1
  /\ pc' = "main" /\ panic' = ""
  /\ gcc_command' = None /\ gi' = 0 /\ implicit_include_directories' = <<>>
  /\ compiled' = None /\ include_directories' = <<>> /\ definitions' = <<>>
  /\ clang_arguments' = <<>> /\ parser' = None
  /\ code' = <<>> /\ k' = 0 /\ wrapper_function' = None
  /\ alternatives' = <<>> /\ j' = 0 /\ failed' = {}
  /\ bindgen' = None
  /\ start_fs' = fs
  /\ UNCHANGED <<inputs, fs, entry_c, history>>

Next ==
  \/ SpawnGcc \/ ProbeFind \/ ProbeCollect
  \/ CreateEntryPointFile \/ GetCompileOptions \/ Parse
  \/ PanicLocation \/ IgnoreEntity \/ SkipEntity \/ WrapFunction \/ PanicWrapper
  \/ WriteEntry
  \/ AltOpenOrReadFail \/ AltWriteFail \/ AltPatch \/ AltDone
  \/ GenerateRustBinding \/ GenerateRustBindingFails
  \/ Rerun

Spec == Init /\ [][Next]_vars

\* ================================================================ properties
Emitted ==
  \/ pc \in {"alts", "bindgen", "done"}
  \/ pc = "panicked" /\ panic = "failed to generate binding"

IsPrefixOf(p, s) ==
  IF Len(p) > Len(s) THEN FALSE ELSE \A i \in 1..Len(p) : p[i] = s[i]

EndsWith(s, t) ==
  IF Len(t) > Len(s) THEN FALSE
  ELSE \A i \in 1..Len(t) : s[Len(s) - Len(t) + i] = t[i]

Occurrences(hay, needle) ==
  Cardinality({i \in 0..(Len(hay) - Len(needle)) :
                 SubSeq(hay, i + 1, i + Len(needle)) = needle})

InScope(entity) ==
  \E i \in 1..Len(include_directories) :
    IsPrefixOf(include_directories[i], Unwrap(entity.location))

\* ---------------------------------------------------------------- C10
ExpectedImplicit(lines) ==
  LET starts == {i \in 1..Len(lines) : Trim(lines[i]) = SearchStartsHere}
  IN IF starts = {} THEN <<>>
     ELSE LET h == CHOOSE i \in starts : \A o \in starts : i <= o
              runs == {n \in 0..(Len(lines) - h) :
                         \A i \in 1..n : Trim(lines[h + i]) \in ExistingPaths}
              n == CHOOSE m \in runs : \A o \in runs : m >= o
          IN [i \in 1..n |-> Trim(lines[h + i])]

\* C10: when the Toolchain Probe returns, its result is exactly the longest
\* run of trimmed lines that directly follow the first introducing line and
\* each name an existing path; no introducing line, empty result.
C10_ProbeResult ==
  pc = "entry" => implicit_include_directories = ExpectedImplicit(gcc_output)

\* the probe returned one directory found after an introducing line that is
\* not the first line, and stopped there
C10_Witness ==
  /\ pc = "entry"
  /\ Len(gcc_output) = 3
  /\ Trim(gcc_output[1]) # SearchStartsHere
  /\ Trim(gcc_output[2]) = SearchStartsHere
  /\ implicit_include_directories = <<<<"/", "u">>>>

\* ---------------------------------------------------------------- C6
ExpectedParserArguments ==
  [i \in 1..Len(include_directories) |-> <<"-", "I">> \o include_directories[i]]
  \o [i \in 1..Len(definitions) |-> <<"-", "D">> \o definitions[i]]
  \o [i \in 1..Len(implicit_include_directories) |->
        <<"-", "I">> \o implicit_include_directories[i]]

\* C6 as stated: the binding generator gets the parser's file and exactly the
\* parser's argument list followed by the target triple, nothing duplicated.
C6_Original ==
  bindgen # None =>
    /\ Unwrap(bindgen).header = Unwrap(parser).file
    /\ Unwrap(parser).arguments = ExpectedParserArguments
    /\ Unwrap(bindgen).clang_args =
         Unwrap(parser).arguments \o <<DashTarget \o env.TARGET>>

\* C6 amended: the binding generator gets the parser's file and the parser's
\* argument list (-I explicit, -D, -I implicit, in order), then a second copy
\* of the -I of every implicit include directory, then the target triple.
C6_Amended ==
  bindgen # None =>
    /\ Unwrap(bindgen).header = Unwrap(parser).file
    /\ Unwrap(parser).arguments = ExpectedParserArguments
    /\ Unwrap(bindgen).clang_args =
         Unwrap(parser).arguments
         \o [i \in 1..Len(implicit_include_directories) |->
               <<"-", "I">> \o implicit_include_directories[i]]
         \o <<DashTarget \o env.TARGET>>

C6_Witness ==
  /\ pc = "done"
  /\ bindgen # None
  /\ Len(include_directories) = 2
  /\ Len(definitions) = 2
  /\ Len(implicit_include_directories) = 1

\* ---------------------------------------------------------------- C9
\* C9 as stated: in a completed run the text that was compiled against the
\* vendor library is the final entry.c, prefix and every wrapper.
C9_Claim ==
  pc = "done" => compiled # None /\ compiled = entry_c

\* ---------------------------------------------------------------- C8
FatalBeforeEmission ==
  pc = "panicked"
  /\ panic \in {"failed to parse", "unwrap on None: location",
                "unwrap on None: create_wrapper_function"}

\* C8: a run gets past the synthesis loop only if the parse succeeded, every
\* top-level declaration has a location and every in-scope function
\* declaration has a result type and a name; and in a run that such a fault
\* aborted, entry.c holds no marker and no wrapper, every alternate file is
\* as the run found it, and the binding generator was not invoked.
C8_NoPartialWrapperSet ==
  /\ Emitted =>
       /\ tu.ok
       /\ \A i \in 1..Len(tu.entities) :
            /\ tu.entities[i].location # None
            /\ (tu.entities[i].kind = "FunctionDecl" /\ InScope(tu.entities[i]))
                 => (tu.entities[i].result_type # None /\ tu.entities[i].name # None)
  /\ FatalBeforeEmission =>
       /\ Find(Unwrap(entry_c), GENERATED_CODE_MARKER) = None
       /\ Find(Unwrap(entry_c), WrappedPrefix) = None
       /\ fs = start_fs
       /\ bindgen = None

\* a run that had already synthesized a wrapper in memory is aborted by a
\* later declaration, with an alternate file waiting for the patch
C8_Witness ==
  /\ pc = "panicked"
  /\ panic = "unwrap on None: create_wrapper_function"
  /\ tu.entities[k].name = None
  /\ Len(code) > Len(GENERATED_CODE_MARKER)
  /\ env.ALTERNATIVES # None
  /\ fs[FileB] = Some(StaleB)

\* ---------------------------------------------------------------- C7
FailedOn(path) == \E f \in failed : alternatives[f] = path

\* C7: the loop over the alternates never aborts the run, and once it is
\* over every listed file on which no open, read or write failed holds a
\* prefix of what it held when the run began followed by the generated code,
\* whatever failed on the other files.
C7_Isolation ==
  /\ pc = "panicked" => (j = 0 \/ j > Len(alternatives))
  /\ Emitted /\ pc # "alts" =>
       \A i \in 1..Len(alternatives) :
         ~FailedOn(alternatives[i]) =>
           /\ Lookup(start_fs, alternatives[i]) # None
           /\ \E n \in 0..Len(Unwrap(start_fs[alternatives[i]])) :
                fs[alternatives[i]] =
                  Some(SubSeq(Unwrap(start_fs[alternatives[i]]), 1, n) \o code)

\* the first of two distinct targets failed, the second was patched and the
\* binding generator ran
C7_Witness ==
  /\ pc = "done"
  /\ bindgen # None
  /\ Len(alternatives) = 2
  /\ alternatives[1] # alternatives[2]
  /\ 1 \in failed
  /\ ~FailedOn(alternatives[2])
  /\ fs[alternatives[2]] # start_fs[alternatives[2]]
  /\ EndsWith(Unwrap(fs[alternatives[2]]), code)

\* ---------------------------------------------------------------- C5
Wrapped(entity) == entity.kind = "FunctionDecl" /\ InScope(entity)

\* C5: throughout the loop and when the code is written, the generated code
\* is the marker followed by the wrappers of exactly the declarations handled
\* so far that are function declarations with an explicit include directory
\* as a literal prefix of their path, in declaration order; every other
\* declaration contributes nothing.
C5_Scope ==
  pc \in {"loop", "alts"} =>
    code = GENERATED_CODE_MARKER
           \o Flatten([i \in 1..(k - 1) |->
                 IF Wrapped(tu.entities[i])
                 THEN UnwrapOr(CreateWrapperFunction(tu.entities[i]), <<>>)
                 ELSE <<>>])

\* a completed run over two include directories that met a function outside
\* all of them and a function inside one
C5_Witness ==
  /\ pc = "alts"
  /\ Len(include_directories) = 2
  /\ \E a, b \in 1..Len(tu.entities) :
       /\ tu.entities[a].kind = "FunctionDecl" /\ ~InScope(tu.entities[a])
       /\ tu.entities[b].kind = "FunctionDecl" /\ InScope(tu.entities[b])
  /\ Len(code) > Len(GENERATED_CODE_MARKER)

\* ---------------------------------------------------------------- C4
WrappedAdd ==
  <<"i", "n", "t", " ", "w", "r", "a", "p", "p", "e", "d", "_", "a", "d",
    "d", "(", "i", "n", "t", " ", "a", ",", " ", "i", "n", "t", " ", "b",
    ")", " ", "{", " ", "r", "e", "t", "u", "r", "n", " ", "a", "d", "d",
    "(", "a", ",", " ", "b", ")", ";", " ", "}", "\n">>
WrappedReset ==
  <<"v", "o", "i", "d", " ", "w", "r", "a", "p", "p", "e", "d", "_", "r",
    "e", "s", "e", "t", "(", ")", " ", "{", " ", "r", "e", "s", "e", "t",
    "(", ")", ";", " ", "}", "\n">>

\* C4: the wrapper just synthesized contains no `return` when the display
\* name of the return type is void, and otherwise exactly one, directly
\* before the forwarding call.
C4_ReturnKeyword ==
  (pc = "loop" /\ wrapper_function # None) =>
    LET entity == tu.entities[k - 1]
        w == Unwrap(wrapper_function)
    IN IF entity.result_type = Some(Void)
       THEN Occurrences(w, Return) = 0
       ELSE /\ Occurrences(w, Return) = 1
            /\ Occurrences(w, <<"{", " ">> \o Return \o <<" ">>
                                \o Unwrap(entity.name) \o <<"(">>) = 1

\* the two wrappers of the specification's scenarios, one of each kind
C4_Witness ==
  /\ pc = "loop"
  /\ k = 3
  /\ tu.entities = <<E_reset, E_add>>
  /\ wrapper_function = Some(WrappedAdd)
  /\ code = GENERATED_CODE_MARKER \o WrappedReset \o WrappedAdd

\* ---------------------------------------------------------------- C3
RECURSIVE JoinWith(_, _)
JoinWith(parts, sep) ==
  IF parts = <<>> THEN <<>>
  ELSE IF Len(parts) = 1 THEN parts[1]
  ELSE parts[1] \o sep \o JoinWith(Tail(parts), sep)

\* C3 as stated: no in-scope function declaration that has a result type
\* and a name stops the pipeline, whether its parameters are named or not,
\* and the wrapper synthesized for a declaration lists its parameters as
\* `<type> <name>` and forwards their names, in order, comma separated.
C3_Claim ==
  /\ (pc = "panicked" /\ panic = "unwrap on None: create_wrapper_function")
       => (tu.entities[k].result_type = None \/ tu.entities[k].name = None)
  /\ wrapper_function # None =>
       LET entity == tu.entities[k - 1]
           params == ParmDecls(entity)
           formal == JoinWith([i \in 1..Len(params) |->
                       Unwrap(params[i].type) \o <<" ">> \o Unwrap(params[i].name)],
                       <<",", " ">>)
           actual == JoinWith([i \in 1..Len(params) |-> Unwrap(params[i].name)],
                       <<",", " ">>)
       IN /\ Occurrences(Unwrap(wrapper_function),
                         <<" ">> \o WrappedPrefix \o Unwrap(entity.name)
                         \o <<"(">> \o formal \o <<")", " ", "{", " ">>) = 1
          /\ EndsWith(Unwrap(wrapper_function),
                      Unwrap(entity.name) \o <<"(">> \o actual
                      \o <<")", ";", " ", "}", "\n">>)

\* ---------------------------------------------------------------- C1
\* the alternate files the finished loop patched without a reported failure
Patched(path) ==
  /\ \E i \in 1..Len(alternatives) : alternatives[i] = path
  /\ ~FailedOn(path)
  /\ Lookup(start_fs, path) # None

\* old is P alone, or P, the marker and a stale suffix
SplitsAt(old, n) ==
  \/ n = Len(old)
  \/ /\ n + Len(GENERATED_CODE_MARKER) <= Len(old)
     /\ SubSeq(old, n + 1, n + Len(GENERATED_CODE_MARKER)) = GENERATED_CODE_MARKER

C2_Claim ==
  \A a, b \in 1..Len(history) :
    (a < b /\ history[a].failed = {} /\ history[b].failed = {}) =>
      /\ history[b].entry_c = history[a].entry_c
      /\ history[b].fs = history[a].fs
====
